---- MODULE Spec2Model ----
(***************************************************************************)
(* Model of src/main.py: the LINE webhook handlers of the 24WASH payment   *)
(* bot (coupon redemption on text events, slip verification on image       *)
(* events) together with the helpers they call.                            *)
(*                                                                         *)
(* Python values are records [ty, neg, ip, fr, s]:                         *)
(*   ty = "none"                      None                                 *)
(*   ty = "bool"   ip \in {0,1}       False / True                         *)
(*   ty = "int"    neg, ip            (-1)^neg * ip                        *)
(*   ty = "float"  neg, ip, fr        (-1)^neg * ip.fr, fr a sequence of   *)
(*                                    decimal digits without trailing 0    *)
(*   ty = "str"    s                  sequence of one-character strings    *)
(*   ty = "list"                      a non-numeric JSON container         *)
(* Python strings that are only compared or concatenated (paths, codes,    *)
(* mapping keys) are TLA+ strings.                                         *)
(***************************************************************************)
EXTENDS Integers, Sequences, FiniteSets, TLC

\* ---------------------------------------------------------------- bounds
MaxLen   == 5      \* longest amount string drawn in SpecAmount
NumProcs == 2      \* concurrent webhook invocations in Spec
MaxTime  == 1      \* time.time()*1000 is drawn from 1..MaxTime

\* ------------------------------------------------------- Python builtins
None   == "<None>"       \* Python None where the other values are strings
Raised == "<raised>"     \* an exception left the function

PyNone      == [ty |-> "none",  neg |-> FALSE, ip |-> 0, fr |-> <<>>, s |-> <<>>]
PyList      == [ty |-> "list",  neg |-> FALSE, ip |-> 0, fr |-> <<>>, s |-> <<>>]
PyBool(b)   == [ty |-> "bool",  neg |-> FALSE, ip |-> IF b THEN 1 ELSE 0, fr |-> <<>>, s |-> <<>>]
PyInt(n)    == [ty |-> "int",   neg |-> n < 0, ip |-> IF n < 0 THEN -n ELSE n, fr |-> <<>>, s |-> <<>>]
PyFloat(n, f) == [ty |-> "float", neg |-> FALSE, ip |-> n, fr |-> f, s |-> <<>>]
PyStr(cs)   == [ty |-> "str",   neg |-> FALSE, ip |-> 0, fr |-> <<>>, s |-> cs]

DigitChars == <<"0", "1", "2", "3", "4", "5", "6", "7", "8", "9">>
DigitSet   == {DigitChars[i] : i \in 1..10}
DigitVal(c) == (CHOOSE i \in 1..10 : DigitChars[i] = c) - 1
IsSpace(c) == c \in {" ", "\t", "\n"}

RECURSIVE Join(_)
Join(cs) == IF cs = <<>> THEN "" ELSE Head(cs) \o Join(Tail(cs))

RECURSIVE IntStr(_)
IntStr(n) == IF n < 10 THEN DigitChars[n + 1]
             ELSE IntStr(n \div 10) \o DigitChars[(n % 10) + 1]

RECURSIVE FracStr(_)
FracStr(f) == IF f = <<>> THEN "" ELSE DigitChars[Head(f) + 1] \o FracStr(Tail(f))

\* str(x)
str(v) ==
    CASE v.ty = "none"  -> "None"
      [] v.ty = "bool"  -> IF v.ip = 1 THEN "True" ELSE "False"
      [] v.ty = "int"   -> (IF v.neg THEN "-" ELSE "") \o IntStr(v.ip)
      [] v.ty = "float" -> (IF v.neg THEN "-" ELSE "") \o IntStr(v.ip) \o "."
                              \o (IF v.fr = <<>> THEN "0" ELSE FracStr(v.fr))
      [] v.ty = "str"   -> Join(v.s)
      [] v.ty = "list"  -> "[]"

\* str.strip()
RECURSIVE LStrip(_)
LStrip(cs) == IF cs # <<>> /\ IsSpace(Head(cs)) THEN LStrip(Tail(cs)) ELSE cs
RECURSIVE RStrip(_)
RStrip(cs) == IF cs # <<>> /\ IsSpace(cs[Len(cs)])
              THEN RStrip(SubSeq(cs, 1, Len(cs) - 1)) ELSE cs
strip(cs) == RStrip(LStrip(cs))

AllDigits(cs) == \A i \in 1..Len(cs) : cs[i] \in DigitSet

RECURSIVE DigitsVal(_)
DigitsVal(cs) == IF cs = <<>> THEN 0
                 ELSE 10 * DigitsVal(SubSeq(cs, 1, Len(cs) - 1)) + DigitVal(cs[Len(cs)])

RECURSIVE DropTrailingZeros(_)
DropTrailingZeros(f) == IF f # <<>> /\ f[Len(f)] = 0
                        THEN DropTrailingZeros(SubSeq(f, 1, Len(f) - 1)) ELSE f

FloatErr == [ok |-> FALSE, neg |-> FALSE, ip |-> 0, fr |-> <<>>]
FloatOk(neg, ip, fr) == [ok |-> TRUE, neg |-> neg, ip |-> ip, fr |-> fr]

\* float() of a string: optional surrounding whitespace, optional sign,
\* then digits with at most one point and at least one digit.  (Exponents,
\* inf/nan and digit-group underscores need characters outside Alphabet.)
ParseFloat(cs) ==
    LET t    == strip(cs)
        sgn  == t # <<>> /\ Head(t) \in {"-", "+"}
        body == IF sgn THEN Tail(t) ELSE t
        dots == {i \in 1..Len(body) : body[i] = "."}
        dot  == IF dots = {} THEN Len(body) + 1 ELSE CHOOSE i \in dots : TRUE
        ipart == SubSeq(body, 1, dot - 1)
        fpart == SubSeq(body, dot + 1, Len(body))
    IN  IF /\ Cardinality(dots) <= 1
           /\ AllDigits(ipart) /\ AllDigits(fpart)
           /\ Len(ipart) + Len(fpart) >= 1
        THEN FloatOk(sgn /\ Head(t) = "-", DigitsVal(ipart),
                     DropTrailingZeros([i \in 1..Len(fpart) |-> DigitVal(fpart[i])]))
        ELSE FloatErr

\* float(x): ok = FALSE stands for the TypeError / ValueError it raises
float(v) ==
    CASE v.ty = "none"  -> FloatErr
      [] v.ty = "list"  -> FloatErr
      [] v.ty = "bool"  -> FloatOk(FALSE, v.ip, <<>>)
      [] v.ty = "int"   -> FloatOk(v.neg, v.ip, <<>>)
      [] v.ty = "float" -> FloatOk(v.neg, v.ip, v.fr)
      [] v.ty = "str"   -> ParseFloat(v.s)

is_integer(f) == f.fr = <<>>

\* int(f) of a float f, as a Python int
int(f) == [ty |-> "int", neg |-> f.neg /\ f.ip # 0, ip |-> f.ip, fr |-> <<>>, s |-> <<>>]

\* bool(x): Python truthiness
truthy(v) ==
    CASE v.ty = "none"  -> FALSE
      [] v.ty = "bool"  -> v.ip = 1
      [] v.ty = "int"   -> v.ip # 0
      [] v.ty = "float" -> v.ip # 0 \/ v.fr # <<>>
      [] v.ty = "str"   -> v.s # <<>>
      [] v.ty = "list"  -> TRUE

\* ------------------------------------------------------------- constants
MACHINE_MAPPING_SLIP ==
    ("20.0" :> "20") @@ ("20" :> "20") @@
    ("30.0" :> "30") @@ ("30" :> "30") @@
    ("30.01" :> "301") @@
    ("40.0" :> "40") @@ ("40" :> "40") @@
    ("50.0" :> "50") @@ ("50" :> "50")

MACHINE_PATH_MAP_COUPON ==
    ("1" :> "20/payment_commands") @@ ("2" :> "302/payment_commands") @@
    ("3" :> "301/payment_commands") @@ ("4" :> "30/payment_commands")

DEFAULT_PATH == "payment_commands"

SLIPOK_BYPASS_CODES == {"1009", "1010"}

\* ------------------------------------------- get_target_path_from_amount
\* variant: int() truncation without the is_integer() test
get_target_path_from_amount_trunc(amount) ==
    IF amount.ty = "none" THEN None
    ELSE LET amt_str   == str(amount)
             amt_float == float(amount)
         IN  IF amt_str \in DOMAIN MACHINE_MAPPING_SLIP
             THEN MACHINE_MAPPING_SLIP[amt_str] \o "/payment_commands"
             ELSE IF ~amt_float.ok THEN None
             ELSE IF str(int(amt_float)) \in DOMAIN MACHINE_MAPPING_SLIP
                  THEN MACHINE_MAPPING_SLIP[str(int(amt_float))] \o "/payment_commands"
                  ELSE None

\* variant: no try/except around the conversion
get_target_path_from_amount_noexcept(amount) ==
    IF amount.ty = "none" THEN None
    ELSE LET amt_str   == str(amount)
             amt_float == float(amount)
         IN  IF amt_str \in DOMAIN MACHINE_MAPPING_SLIP
             THEN MACHINE_MAPPING_SLIP[amt_str] \o "/payment_commands"
             ELSE IF ~amt_float.ok THEN Raised
             ELSE IF /\ is_integer(amt_float)
                     /\ str(int(amt_float)) \in DOMAIN MACHINE_MAPPING_SLIP
                  THEN MACHINE_MAPPING_SLIP[str(int(amt_float))] \o "/payment_commands"
                  ELSE None

\* The try/except around the body turns every exception into "return None".
get_target_path_from_amount(amount) ==
    IF amount.ty = "none" THEN None
    ELSE LET amt_str   == str(amount)
             amt_float == float(amount)
         IN  IF amt_str \in DOMAIN MACHINE_MAPPING_SLIP
             THEN MACHINE_MAPPING_SLIP[amt_str] \o "/payment_commands"
             ELSE IF ~amt_float.ok THEN None
             ELSE IF /\ is_integer(amt_float)
                     /\ str(int(amt_float)) \in DOMAIN MACHINE_MAPPING_SLIP
                  THEN MACHINE_MAPPING_SLIP[str(int(amt_float))] \o "/payment_commands"
                  ELSE None

\* ------------------------------------------------------ external stores
Codes == {"12345", "54321"}

\* A snapshot of coupons/<code> as ref.get() returns it.
Absent        == [kind |-> "null",   hasValue |-> FALSE, val |-> PyNone]
Scalar(v)     == [kind |-> "scalar", hasValue |-> FALSE, val |-> v]
Dict(v)       == [kind |-> "dict",   hasValue |-> TRUE,  val |-> v]
DictNoValue   == [kind |-> "dict",   hasValue |-> FALSE, val |-> PyNone]

\* Records the coupon store may hold when the service starts.
InitSnapshots == {Absent, Scalar(PyInt(0)), Scalar(PyInt(50)), Scalar(PyStr(<<"a">>)),
                  Scalar(PyStr(<<>>)), Scalar(PyBool(FALSE)), Scalar(PyList),
                  Dict(PyInt(50)), Dict(PyStr(<<"a">>)), DictNoValue}

Paths == {MACHINE_MAPPING_SLIP[k] \o "/payment_commands" : k \in DOMAIN MACHINE_MAPPING_SLIP}
           \cup {MACHINE_PATH_MAP_COUPON[k] : k \in DOMAIN MACHINE_PATH_MAP_COUPON}
           \cup {DEFAULT_PATH}

Procs      == 1..NumProcs
Timestamps == 1..MaxTime

\* ------------------------------------------------ check_and_redeem_coupon
\* readFails: ref.get() raised.  Result: raised (an exception leaves the
\* function: float() of a dict's 'value' is outside any try), exists, value.
CouponResult(r, e, v) == [raised |-> r, exists |-> e, value |-> v]

\* the float a successful float() returns, as a Python value
AsFloat(f) == [ty |-> "float", neg |-> f.neg, ip |-> f.ip, fr |-> f.fr, s |-> <<>>]

check_and_redeem_coupon(snapshot, readFails) ==
    IF readFails THEN CouponResult(FALSE, FALSE, PyInt(0))
    ELSE IF snapshot.kind = "null" THEN CouponResult(FALSE, FALSE, PyInt(0))
    ELSE IF snapshot.kind = "dict"
         THEN LET v == IF snapshot.hasValue THEN snapshot.val ELSE PyInt(0)
                  f == float(v)
              IN  IF f.ok THEN CouponResult(FALSE, TRUE, AsFloat(f))
                  ELSE CouponResult(TRUE, FALSE, PyInt(0))
    ELSE IF ~truthy(snapshot.val) THEN CouponResult(FALSE, FALSE, PyInt(0))
    ELSE IF snapshot.val.ty \in {"int", "bool", "float", "str"} /\ float(snapshot.val).ok
         THEN CouponResult(FALSE, TRUE, AsFloat(float(snapshot.val)))
         ELSE CouponResult(FALSE, TRUE, PyInt(0))

\* ------------------------------------------------------------ text input
Texts == { <<"1","2","3","4","5","-","1">>,
           <<" ","1","2","3","4","5"," ","0","1">>,
           <<"1","2","3","4","5","6">>,
           <<"5","4","3","2","1","-","2">>,
           <<"1","2","3","4","-","1">>,
           <<"k","e","y">>,
           <<"K","E","Y">> }

upper(c) == CASE c = "k" -> "K" [] c = "e" -> "E" [] c = "y" -> "Y" [] OTHER -> c
IsKey(t) == [i \in 1..Len(t) |-> upper(t[i])] = <<"K", "E", "Y">>

\* re.match(r'^(\d{5})[- ]?0?([1-9])$', text): ok, code, machine_num
NoMatch == [ok |-> FALSE, code |-> "", machine_num |-> ""]
match_machine(t) ==
    LET r    == SubSeq(t, 6, Len(t))
        d19  == DigitSet \ {"0"}
        good == /\ Len(t) >= 6
                /\ AllDigits(SubSeq(t, 1, 5))
                /\ \/ Len(r) = 1 /\ r[1] \in d19
                   \/ Len(r) = 2 /\ r[1] \in {"-", " ", "0"} /\ r[2] \in d19
                   \/ Len(r) = 3 /\ r[1] \in {"-", " "} /\ r[2] = "0" /\ r[3] \in d19
    IN  IF good THEN [ok |-> TRUE, code |-> Join(SubSeq(t, 1, 5)), machine_num |-> t[Len(t)]]
        ELSE NoMatch

\* ------------------------------------------------- check_slip_with_slipok
\* slip_data: the 'data' member of the verifier's JSON answer
NoData          == [kind |-> "none",  amount |-> PyNone, transRef |-> None]
EmptyData       == [kind |-> "empty", amount |-> PyNone, transRef |-> None]
OtherData       == [kind |-> "other", amount |-> PyNone, transRef |-> None]
SlipData(a, r)  == [kind |-> "dict",  amount |-> a,      transRef |-> r]

\* what requests.post / response.json() produce
NoSlip          == [kind |-> "unset",   status |-> 0, success |-> FALSE,
                    data |-> NoData, code |-> PyNone]
TransportError  == [NoSlip EXCEPT !.kind = "timeout"]
Unparsable      == [NoSlip EXCEPT !.kind = "badjson", !.status = 200]
NonDictBody     == [NoSlip EXCEPT !.kind = "nondict", !.status = 200]
Success(st, d)  == [kind |-> "json", status |-> st, success |-> TRUE,
                    data |-> d, code |-> PyNone]
Failure(st, c)  == [kind |-> "json", status |-> st, success |-> FALSE,
                    data |-> NoData, code |-> c]

SlipAmounts == {PyInt(20), PyFloat(30, <<0, 1>>), PyFloat(20, <<5>>), PyInt(99), PyNone}
SlipCodes   == {PyInt(1009), PyStr(<<"1", "0", "1", "0">>), PyInt(1012), PyNone}

SlipokResponses ==
    {TransportError, Unparsable, NonDictBody}
      \cup {Success(200, SlipData(a, "T1")) : a \in SlipAmounts}
      \cup {Success(200, NoData), Success(200, EmptyData), Success(200, OtherData),
            Success(500, SlipData(PyInt(20), "T1"))}
      \cup {Failure(st, c) : st \in {200, 400}, c \in SlipCodes}

Verdict(v, d) == [is_valid |-> v, slip_data |-> d]

\* variant: the error code is looked up without str()
check_slip_with_slipok_nostr(resp) ==
    IF resp.kind # "json" THEN Verdict(FALSE, NoData)
    ELSE IF resp.status = 200 /\ resp.success THEN Verdict(TRUE, resp.data)
    ELSE IF resp.code.ty = "str" /\ str(resp.code) \in SLIPOK_BYPASS_CODES
         THEN Verdict(TRUE, NoData)
    ELSE Verdict(FALSE, NoData)

\* variant: every failure answer carrying a code switches to the AI
check_slip_with_slipok_anycode(resp) ==
    IF resp.kind # "json" THEN Verdict(FALSE, NoData)
    ELSE IF resp.status = 200 /\ resp.success THEN Verdict(TRUE, resp.data)
    ELSE IF resp.code.ty # "none" THEN Verdict(TRUE, NoData)
    ELSE Verdict(FALSE, NoData)

\* variant: the except branch fails open
check_slip_with_slipok_failopen(resp) ==
    IF resp.kind # "json" THEN Verdict(TRUE, NoData)
    ELSE IF resp.status = 200 /\ resp.success THEN Verdict(TRUE, resp.data)
    ELSE IF str(resp.code) \in SLIPOK_BYPASS_CODES THEN Verdict(TRUE, NoData)
    ELSE Verdict(FALSE, NoData)

check_slip_with_slipok(resp) ==
    IF resp.kind # "json" THEN Verdict(FALSE, NoData)
    ELSE IF resp.status = 200 /\ resp.success THEN Verdict(TRUE, resp.data)
    ELSE IF str(resp.code) \in SLIPOK_BYPASS_CODES THEN Verdict(TRUE, NoData)
    ELSE Verdict(FALSE, NoData)

\* ------------------------------------------------- check_slip_with_gemini
\* what generate_content / json.loads(clean_json_text(response.text)) produce
NoGem           == [kind |-> "unset", amount |-> PyNone, trans_ref |-> None]
GemError        == [NoGem EXCEPT !.kind = "exception"]
GemBadJson      == [NoGem EXCEPT !.kind = "badjson"]
GemNonDict      == [NoGem EXCEPT !.kind = "nondict"]
GemDict(a, r)   == [kind |-> "dict", amount |-> a, trans_ref |-> r]

GemAmounts == {PyFloat(40, <<>>), PyStr(<<"4", "0">>), PyStr(<<"a">>), PyInt(0), PyInt(99), PyNone}
GeminiResponses ==
    {GemError, GemBadJson, GemNonDict}
      \cup {GemDict(a, r) : a \in GemAmounts, r \in {"R1", None}}

AiResult(a, r) == [amount |-> a, trans_ref |-> r]

\* variant: no "if not gemini_client" guard
check_slip_with_gemini_noguard(client, resp) ==
    IF resp.kind = "dict" THEN AiResult(resp.amount, resp.trans_ref)
    ELSE AiResult(PyNone, None)

check_slip_with_gemini(client, resp) ==
    IF ~client THEN AiResult(PyNone, None)
    ELSE IF resp.kind = "dict" THEN AiResult(resp.amount, resp.trans_ref)
    ELSE AiResult(PyNone, None)

\* --------------------------------------------------------------- replies
NoReply          == "-"
KEY_HELP         == "key help"
COUPON_OK        == "coupon ok"
COUPON_PUSH_FAIL == "system error, retry"
COUPON_INVALID   == "invalid code"
IMAGE_UNREADABLE == "cannot read image"
SLIP_INVALID     == "invalid slip"
AI_FAIL          == "bank down and amount unreadable, contact admin"
SLIP_OK          == "amount received"
SLIP_OK_AI       == "(AI) amount received"
SLIP_PUSH_FAIL   == "system error, contact admin"
AMOUNT_MISMATCH  == "amount does not match a machine price"

\* ----------------------------------------------------------------- state
VARIABLES
    coupons,        \* coupons/<code> in the realtime database
    queue,          \* the command lists, one per channel path
    gemini_client,  \* TRUE iff GENAI_API_KEY was set at start
    frame,          \* per invocation: position and locals of the handler
    amount_in,      \* SpecAmount: argument of get_target_path_from_amount
    path_out        \* SpecAmount: its result

vars == <<coupons, queue, gemini_client, frame, amount_in, path_out>>

Frame0 == [pc |-> "idle", kind |-> "none", text |-> <<>>,
           code |-> "", machine_num |-> "", exists |-> FALSE, readError |-> FALSE,
           slip |-> NoSlip, is_valid |-> FALSE, slip_data |-> NoData, gem |-> NoGem,
           amount |-> PyNone, trans_ref |-> None, method |-> "", timestamp |-> 0,
           target_path |-> None, resolved |-> FALSE,
           pushed |-> "none", deleted |-> FALSE, reply |-> NoReply,
           slipokCalls |-> 0, geminiCalls |-> 0, raised |-> FALSE,
           sequel |-> FALSE]   \* history: a redemption of the same code had ended
                               \* when this redemption began

Unset == "unset"

Ended(code) == {q \in Procs : /\ frame[q].pc = "done" /\ frame[q].kind = "text"
                               /\ frame[q].code = code}

\* the decision outcome a reply text stands for
Outcome(f) ==
    CASE f.reply \in {COUPON_OK, SLIP_OK, SLIP_OK_AI}       -> "Dispatched"
      [] f.reply = SLIP_INVALID                             -> "RejectedInvalidSlip"
      [] f.reply = AMOUNT_MISMATCH                          -> "RejectedAmountMismatch"
      [] f.reply = COUPON_INVALID                           -> "RejectedInvalidCoupon"
      [] f.reply \in {COUPON_PUSH_FAIL, SLIP_PUSH_FAIL, AI_FAIL, IMAGE_UNREADABLE}
                                                            -> "RejectedSystemError"
      [] OTHER                                              -> "None"

\* the handler returns after safe_reply(..., r)
Reply(f, r) == [f EXCEPT !.pc = "done", !.reply = r]
\* an exception leaves the handler (line_webhook logs it and answers 'Error')
Raise(f)    == [f EXCEPT !.pc = "done", !.raised = TRUE]

\* ------------------------------------------------ push_command_to_firebase
\* ok: ref.push(data) did not raise
\* variant: ref.set() in place of ref.push(), one slot per path
push_command_to_firebase_set(q, data, path, ok) ==
    LET target_path == IF path # None /\ path # "" THEN path ELSE DEFAULT_PATH
    IN  IF ok THEN [q EXCEPT ![target_path] = <<data>>] ELSE q

push_command_to_firebase(q, data, path, ok) ==
    LET target_path == IF path # None /\ path # "" THEN path ELSE DEFAULT_PATH
    IN  IF ok THEN [q EXCEPT ![target_path] = Append(@, data)] ELSE q

\* ---------------------------------------------------------- delete_coupon
\* ok: ref.delete() did not raise (the exception is logged and dropped)
\* variant: the delete is issued on the parent node 'coupons'
delete_coupon_all(c, code, ok) ==
    IF ok THEN [k \in DOMAIN c |-> Absent] ELSE c

delete_coupon(c, code, ok) ==
    IF ok /\ code \in DOMAIN c THEN [c EXCEPT ![code] = Absent] ELSE c

Snapshot(code) == IF code \in DOMAIN coupons THEN coupons[code] ELSE Absent

\* ----------------------------------------------------- handle_text_message
CouponCommand(f) ==
    [status |-> "work", method |-> "coupon", code |-> f.code,
     selected_machine |-> f.machine_num,
     transRef |-> "coupon-" \o f.code \o "-" \o IntStr(f.timestamp),
     timestamp |-> f.timestamp]

\* lines 277-294 and 310: up to the coupon read
TextStart(p, t, readFails, ts) ==
    /\ frame[p].pc = "idle"
    /\ LET text == strip(t)
           m    == match_machine(text)
           f0   == [frame[p] EXCEPT !.kind = "text", !.text = t]
           r    == check_and_redeem_coupon(Snapshot(m.code), readFails)
           f1   == [f0 EXCEPT !.code = m.code, !.machine_num = m.machine_num,
                              !.readError = readFails,
                              !.sequel = Ended(m.code) # {}]
       IN  frame' = [frame EXCEPT ![p] =
             IF IsKey(text) THEN Reply(f0, KEY_HELP)
             ELSE IF ~m.ok THEN [f0 EXCEPT !.pc = "done"]
             ELSE IF r.raised THEN Raise(f1)
             ELSE IF r.exists
                  THEN [f1 EXCEPT !.pc = "t_push", !.exists = TRUE, !.timestamp = ts,
                           !.target_path =
                               IF m.machine_num \in DOMAIN MACHINE_PATH_MAP_COUPON
                               THEN MACHINE_PATH_MAP_COUPON[m.machine_num]
                               ELSE DEFAULT_PATH]
                  ELSE Reply(f1, COUPON_INVALID)]
    /\ UNCHANGED <<coupons, queue, gemini_client, amount_in, path_out>>

\* variant: the result of the push is not looked at
TextPush_ignore_result(p, ok) ==
    /\ frame[p].pc = "t_push"
    /\ queue' = push_command_to_firebase(queue, CouponCommand(frame[p]),
                                         frame[p].target_path, ok)
    /\ frame' = [frame EXCEPT ![p] =
          [@ EXCEPT !.pc = "t_delete", !.pushed = IF ok THEN "ok" ELSE "fail"]]
    /\ UNCHANGED <<coupons, gemini_client, amount_in, path_out>>

\* variant: the coupon is deleted before the push is known to have succeeded
TextPush_delete_first(p, ok) ==
    /\ frame[p].pc = "t_push"
    /\ coupons' = delete_coupon(coupons, frame[p].code, TRUE)
    /\ queue' = push_command_to_firebase(queue, CouponCommand(frame[p]),
                                         frame[p].target_path, ok)
    /\ frame' = [frame EXCEPT ![p] =
          IF ok THEN [@ EXCEPT !.pc = "t_delete", !.pushed = "ok"]
          ELSE Reply([@ EXCEPT !.pushed = "fail"], COUPON_PUSH_FAIL)]
    /\ UNCHANGED <<gemini_client, amount_in, path_out>>

\* line 303 and 307-308
TextPush(p, ok) ==
    /\ frame[p].pc = "t_push"
    /\ queue' = push_command_to_firebase(queue, CouponCommand(frame[p]),
                                         frame[p].target_path, ok)
    /\ frame' = [frame EXCEPT ![p] =
          IF ok THEN [@ EXCEPT !.pc = "t_delete", !.pushed = "ok"]
          ELSE Reply([@ EXCEPT !.pushed = "fail"], COUPON_PUSH_FAIL)]
    /\ UNCHANGED <<coupons, gemini_client, amount_in, path_out>>

\* lines 304-306
TextDelete(p, ok) ==
    /\ frame[p].pc = "t_delete"
    /\ coupons' = delete_coupon(coupons, frame[p].code, ok)
    /\ frame' = [frame EXCEPT ![p] = Reply([@ EXCEPT !.deleted = ok], COUPON_OK)]
    /\ UNCHANGED <<queue, gemini_client, amount_in, path_out>>

\* ---------------------------------------------------- handle_image_message
SlipCommand(f) ==
    [status |-> "work", method |-> f.method, amount |-> f.amount,
     transRef |-> f.trans_ref, timestamp |-> f.timestamp]

\* variant: an unresolved amount is sent on with path None
Route_default(f) ==
    LET target_path == get_target_path_from_amount(f.amount)
        g == [f EXCEPT !.resolved = TRUE, !.target_path = target_path]
    IN  [g EXCEPT !.pc = "i_push"]

\* lines 368-371 and 386-388: resolve the channel, reject when there is none
Route(f) ==
    LET target_path == get_target_path_from_amount(f.amount)
        g == [f EXCEPT !.resolved = TRUE, !.target_path = target_path]
    IN  IF target_path # None /\ target_path # ""
        THEN [g EXCEPT !.pc = "i_push"]
        ELSE Reply(g, AMOUNT_MISMATCH)

Contents == {"bytes", "unreadable", "raises"}

\* lines 315-354: fetch the image, ask the verifier, take its data
ImageStart(p, content, resp, ts) ==
    /\ frame[p].pc = "idle"
    /\ LET f0 == [frame[p] EXCEPT !.kind = "image"]
           v  == check_slip_with_slipok(resp)
           f1 == [f0 EXCEPT !.slip = resp, !.slipokCalls = @ + 1,
                            !.is_valid = v.is_valid, !.slip_data = v.slip_data]
           f2 == [f1 EXCEPT !.method = "slip", !.timestamp = ts]
       IN  frame' = [frame EXCEPT ![p] =
             IF content = "raises" THEN Raise(f0)
             ELSE IF content = "unreadable" THEN Reply(f0, IMAGE_UNREADABLE)
             ELSE IF ~v.is_valid THEN Reply(f1, SLIP_INVALID)
             ELSE IF v.slip_data.kind = "other" THEN Raise(f2)
             ELSE IF v.slip_data.kind = "dict"
                  THEN Route([f2 EXCEPT !.amount = v.slip_data.amount,
                                        !.trans_ref = v.slip_data.transRef])
                  ELSE [f2 EXCEPT !.pc = "i_gemini"]]
    /\ UNCHANGED <<coupons, queue, gemini_client, amount_in, path_out>>

\* lines 355-366: the AI fallback
ImageGemini(p, gresp) ==
    /\ frame[p].pc = "i_gemini"
    /\ LET r  == check_slip_with_gemini(gemini_client, gresp)
           f1 == [frame[p] EXCEPT !.geminiCalls = @ + 1,
                                  !.gem = IF gemini_client THEN gresp ELSE NoGem]
       IN  frame' = [frame EXCEPT ![p] =
             IF truthy(r.amount)
             THEN Route([f1 EXCEPT !.amount = r.amount, !.method = "ai_fallback",
                            !.trans_ref = IF r.trans_ref # None /\ r.trans_ref # ""
                                          THEN r.trans_ref
                                          ELSE "ai-" \o IntStr(f1.timestamp)])
             ELSE Reply(f1, AI_FAIL)]
    /\ UNCHANGED <<coupons, queue, gemini_client, amount_in, path_out>>

\* lines 372-385
\* variant: the success reply is sent whatever the push returned
ImagePush_ignore_result(p, ok) ==
    /\ frame[p].pc = "i_push"
    /\ queue' = push_command_to_firebase(queue, SlipCommand(frame[p]),
                                         frame[p].target_path, ok)
    /\ frame' = [frame EXCEPT ![p] =
          Reply([@ EXCEPT !.pushed = IF ok THEN "ok" ELSE "fail"],
                IF @.method = "slip" THEN SLIP_OK ELSE SLIP_OK_AI)]
    /\ UNCHANGED <<coupons, gemini_client, amount_in, path_out>>

ImagePush(p, ok) ==
    /\ frame[p].pc = "i_push"
    /\ queue' = push_command_to_firebase(queue, SlipCommand(frame[p]),
                                         frame[p].target_path, ok)
    /\ frame' = [frame EXCEPT ![p] =
          IF ok THEN Reply([@ EXCEPT !.pushed = "ok"],
                           IF @.method = "slip" THEN SLIP_OK ELSE SLIP_OK_AI)
          ELSE Reply([@ EXCEPT !.pushed = "fail"], SLIP_PUSH_FAIL)]
    /\ UNCHANGED <<coupons, gemini_client, amount_in, path_out>>

\* ------------------------------------------- concurrent invocations
\* The inputs of Spec: one text or image event per invocation, any
\* interleaving of the invocations' external calls.
RaceSnapshots == {Absent, Dict(PyInt(50))}
RaceTexts     == { <<"1","2","3","4","5","-","1">>,
                   <<"5","4","3","2","1"," ","0","2">>,
                   <<"1","2","3","4","-","1">>,
                   <<"k","e","y">> }
RaceSlipok    == {TransportError, Success(200, SlipData(PyInt(20), "T1")),
                  Failure(200, PyInt(1009))}
RaceGemini    == {GemError, GemDict(PyFloat(40, <<>>), "R1")}

Init ==
    /\ coupons \in [Codes -> RaceSnapshots]
    /\ queue = [q \in Paths |-> <<>>]
    /\ gemini_client \in BOOLEAN
    /\ frame = [p \in Procs |-> Frame0]
    /\ amount_in = PyNone
    /\ path_out = Unset

Next ==
    \E p \in Procs :
        \/ \E t \in RaceTexts, readFails \in BOOLEAN, ts \in Timestamps :
               TextStart(p, t, readFails, ts)
        \/ \E ok \in BOOLEAN : TextPush(p, ok)
        \/ \E ok \in BOOLEAN : TextDelete(p, ok)
        \/ \E content \in Contents, resp \in RaceSlipok, ts \in Timestamps :
               ImageStart(p, content, resp, ts)
        \/ \E gresp \in RaceGemini : ImageGemini(p, gresp)
        \/ \E ok \in BOOLEAN : ImagePush(p, ok)

Spec == Init /\ [][Next]_vars

\* ------------------------------------------------- one image event alone
InitSlip ==
    /\ coupons \in [Codes -> RaceSnapshots]
    /\ queue = [q \in Paths |-> <<>>]
    /\ gemini_client \in BOOLEAN
    /\ frame = [p \in Procs |-> Frame0]
    /\ amount_in = PyNone
    /\ path_out = Unset

NextSlip ==
    \/ \E content \in Contents, resp \in SlipokResponses, ts \in Timestamps :
           ImageStart(1, content, resp, ts)
    \/ \E gresp \in GeminiResponses : ImageGemini(1, gresp)
    \/ \E ok \in BOOLEAN : ImagePush(1, ok)

SpecSlip == InitSlip /\ [][NextSlip]_vars

\* -------------------------------------------------- one text event alone
InitText ==
    /\ coupons \in [Codes -> InitSnapshots]
    /\ queue = [q \in Paths |-> <<>>]
    /\ gemini_client = FALSE
    /\ frame = [p \in Procs |-> Frame0]
    /\ amount_in = PyNone
    /\ path_out = Unset

NextText ==
    \/ \E t \in Texts, readFails \in BOOLEAN, ts \in Timestamps :
           TextStart(1, t, readFails, ts)
    \/ \E ok \in BOOLEAN : TextPush(1, ok)
    \/ \E ok \in BOOLEAN : TextDelete(1, ok)

SpecText == InitText /\ [][NextText]_vars

\* ------------------------------ get_target_path_from_amount on its own
Alphabet == {"0", "1", "2", "3", "5", ".", "a"}

RECURSIVE StringsUpTo(_)
StringsUpTo(n) ==
    IF n = 0 THEN {<<>>}
    ELSE LET shorter == StringsUpTo(n - 1)
         IN  shorter \cup {Append(cs, c) : cs \in {x \in shorter : Len(x) = n - 1},
                                           c \in Alphabet}

ExtraStrings == { <<" ", "2", "0">>, <<"2", "0", "\n">>, <<"-", "2", "0">>, <<"+", "2", "0">>,
                  <<"2", "0", ".", "0", "0", "0", "0">>, <<"2", "0", " ", "0">> }

Fracs == {<<>>} \cup {<<d>> : d \in 1..9} \cup {<<d, e>> : d \in 0..9, e \in 1..9}

Amounts ==
    {PyNone, PyList, PyBool(TRUE), PyBool(FALSE)}
      \cup {PyInt(n) : n \in {0, 1, 20, 30, 40, 50, 99, 200, 301, -20}}
      \cup {PyFloat(n, f) : n \in {0, 2, 20, 30, 40, 50, 99}, f \in Fracs}
      \cup {PyStr(cs) : cs \in StringsUpTo(MaxLen) \cup ExtraStrings}

InitAmount ==
    /\ coupons = [c \in Codes |-> Absent]
    /\ queue = [q \in Paths |-> <<>>]
    /\ gemini_client = FALSE
    /\ frame = [p \in Procs |-> Frame0]
    /\ amount_in \in Amounts
    /\ path_out = Unset

ResolveAmount ==
    /\ path_out = Unset
    /\ path_out' = get_target_path_from_amount(amount_in)
    /\ UNCHANGED <<coupons, queue, gemini_client, frame, amount_in>>

NextAmount == ResolveAmount

SpecAmount == InitAmount /\ [][NextAmount]_vars

\* ================================================================ claims
Channel(k) == MACHINE_MAPPING_SLIP[k] \o "/payment_commands"
QueueEmpty == \A q \in Paths : queue[q] = <<>>
InQueue(cmd, path) == \E i \in DOMAIN queue[path] : queue[path][i] = cmd

\* C1: a coupon record is deleted only by an invocation whose own command
\* push has returned success and whose command is in the queue; no
\* invocation whose push failed or was never attempted deletes.
C1_DeleteOnlyAfterPush ==
    /\ [](\A p \in Procs : frame[p].deleted => frame[p].pushed = "ok")
    /\ [][\A c \in Codes :
            (coupons[c] # Absent /\ coupons'[c] = Absent) =>
                \E p \in Procs :
                    /\ frame[p].pc = "t_delete" /\ frame'[p].pc = "done"
                    /\ frame[p].code = c
                    /\ frame[p].pushed = "ok"
                    /\ InQueue(CouponCommand(frame[p]), frame[p].target_path)]_vars

C1_Witness ==
    \E p \in Procs : /\ frame[p].deleted /\ frame[p].pushed = "ok"
                     /\ coupons[frame[p].code] = Absent

\* C2: the step in which a redemption's push fails leaves the coupon store
\* as it was and ends the invocation; the record stays present unless another
\* redemption of the same code deleted it; and a later redemption of that
\* code whose read succeeds validates it as present.
C2_CouponKeptOnPushFailure ==
    /\ [](\A p \in Procs : frame[p].pushed = "fail" /\ frame[p].kind = "text" =>
             /\ frame[p].pc = "done" /\ ~frame[p].deleted
             /\ \/ coupons[frame[p].code] # Absent
                \/ \E q \in Procs \ {p} : frame[q].code = frame[p].code /\ frame[q].deleted)
    /\ [][\A p \in Procs :
            (frame[p].pc = "t_push" /\ frame'[p].pushed = "fail") => coupons' = coupons]_vars
    /\ [][\A p, q \in Procs :
            ( /\ frame[p].pushed = "fail" /\ frame[p].kind = "text"
              /\ coupons[frame[p].code] # Absent
              /\ frame[q].pc = "idle" /\ frame'[q].pc # "idle"
              /\ frame'[q].code = frame[p].code
              /\ ~frame'[q].readError )
            => frame'[q].exists /\ frame'[q].pc = "t_push"]_vars

C2_Witness ==
    \E p, q \in Procs :
        /\ frame[p].pushed = "fail" /\ frame[p].kind = "text"
        /\ p # q /\ frame[q].sequel /\ frame[q].code = frame[p].code
        /\ Ended(frame[p].code) = {p, q}
        /\ frame[q].exists /\ frame[q].reply = COUPON_OK

\* C3: once a redemption has ended with its push succeeded, a redemption of
\* the same code that begins afterwards finds no coupon and pushes nothing.
C3_SecondRedemptionFindsNothing ==
    [][\A p, q \in Procs :
         ( /\ frame[p].pc = "done" /\ frame[p].kind = "text" /\ frame[p].pushed = "ok"
           /\ frame[q].pc = "idle" /\ frame'[q].pc # "idle"
           /\ frame'[q].kind = "text" /\ frame'[q].code = frame[p].code )
         => ~frame'[q].exists /\ frame'[q].pc = "done" /\ frame'[q].pushed = "none"]_vars

\* C4: for every coupon code, at most one command with method "coupon" and
\* that code is ever in the command queue.
CouponPushes(c) ==
    UNION {{<<q, i>> : i \in {j \in DOMAIN queue[q] :
                                  queue[q][j].method = "coupon" /\ queue[q][j].code = c}}
           : q \in Paths}

C4_AtMostOneCouponCommand ==
    \A c \in Codes : Cardinality(CouponPushes(c)) <= 1

\* C5: a failure answer of the verifier whose code is in the bypass set gives
\* the verdict valid with no data, and the event is never answered as an
\* invalid slip.
IsFailureAnswer(r) == r.kind = "json" /\ ~r.success
IsBypass(r) == IsFailureAnswer(r) /\ str(r.code) \in {"1009", "1010"}

C5_BypassAccepted ==
    \A p \in Procs :
        IsBypass(frame[p].slip) =>
            /\ frame[p].is_valid /\ frame[p].slip_data = NoData
            /\ frame[p].reply # SLIP_INVALID

C5_Witness ==
    \E p \in Procs : /\ IsBypass(frame[p].slip) /\ frame[p].slip.code = PyInt(1009)
                     /\ frame[p].is_valid /\ frame[p].pc = "i_gemini"

\* C6: a failure answer whose code is not in the bypass set ends the event as
\* an invalid slip, with the fallback extractor not called and nothing pushed.
C6_OtherCodeRejected ==
    \A p \in Procs :
        IsFailureAnswer(frame[p].slip) /\ ~IsBypass(frame[p].slip) =>
            /\ frame[p].pc = "done" /\ Outcome(frame[p]) = "RejectedInvalidSlip"
            /\ frame[p].geminiCalls = 0
            /\ frame[p].pushed = "none" /\ QueueEmpty

C6_Witness ==
    \E p \in Procs : /\ IsFailureAnswer(frame[p].slip) /\ frame[p].slip.code = PyInt(1012)
                     /\ frame[p].reply = SLIP_INVALID

\* C7: when the verification call fails at transport level or its answer
\* cannot be parsed, the event ends as an invalid slip after one call of the
\* verifier, with the fallback extractor not called and nothing pushed.
C7_TransportFailureRejected ==
    \A p \in Procs :
        frame[p].slip.kind \in {"timeout", "badjson", "nondict"} =>
            /\ frame[p].pc = "done" /\ Outcome(frame[p]) = "RejectedInvalidSlip"
            /\ ~frame[p].is_valid
            /\ frame[p].slipokCalls = 1
            /\ frame[p].geminiCalls = 0
            /\ frame[p].pushed = "none" /\ QueueEmpty

C7_Witness ==
    \E p \in Procs : frame[p].slip = TransportError /\ frame[p].reply = SLIP_INVALID

\* C8: when str(a) is a mapping key the result is that key's channel path;
\* when a is integral and str(int(a)) is a key the result is that key's
\* channel path; when a has a nonzero fractional part and str(a) is not a
\* key the result is None.  20, 20.0 and "20.00" give channel 20, 30 and
\* 30.01 give channels 30 and 301, 20.5 gives None.
C8_ResolveChannel ==
    path_out # Unset =>
        LET a == amount_in
            s == str(a)
            f == float(a)
        IN  /\ (a.ty # "none" /\ s \in DOMAIN MACHINE_MAPPING_SLIP) => path_out = Channel(s)
            /\ (f.ok /\ is_integer(f) /\ str(int(f)) \in DOMAIN MACHINE_MAPPING_SLIP)
                   => path_out = Channel(str(int(f)))
            /\ (f.ok /\ ~is_integer(f) /\ s \notin DOMAIN MACHINE_MAPPING_SLIP)
                   => path_out = None
            /\ a \in {PyInt(20), PyFloat(20, <<>>), PyStr(<<"2", "0", ".", "0", "0">>)}
                   => path_out = "20/payment_commands"
            /\ a = PyInt(30) => path_out = "30/payment_commands"
            /\ a = PyFloat(30, <<0, 1>>) => path_out = "301/payment_commands"
            /\ a = PyFloat(20, <<5>>) => path_out = None

C8_Witness ==
    amount_in = PyStr(<<"2", "0", ".", "0", "0">>) /\ path_out = "20/payment_commands"

\* C9: for None and for every value float() rejects, the result is None and
\* no exception leaves the function.
C9_MalformedIsNoMatch ==
    (path_out # Unset /\ (amount_in.ty = "none" \/ ~float(amount_in).ok))
        => path_out = None /\ path_out # Raised

C9_Witness ==
    amount_in = PyStr(<<"2", ".", "0", ".">>) /\ path_out = None

\* C10: when the amount of an image event resolves to no channel, the event
\* ends as an amount mismatch and nothing is pushed to any path.
C10_NoChannelNoPush ==
    \A p \in Procs :
        ( /\ frame[p].kind = "image" /\ frame[p].resolved
          /\ get_target_path_from_amount(frame[p].amount) = None )
        => /\ frame[p].pc = "done" /\ Outcome(frame[p]) = "RejectedAmountMismatch"
           /\ frame[p].pushed = "none" /\ QueueEmpty

C10_Witness ==
    \E p \in Procs : /\ frame[p].amount = PyInt(99) /\ frame[p].resolved
                     /\ frame[p].reply = AMOUNT_MISMATCH /\ queue[DEFAULT_PATH] = <<>>

\* C11: on a verdict that is valid without data the fallback extractor is
\* called before the channel is resolved; when it yields no amount (no vision
\* client, a failed call, an unusable answer, an answer without amount) the
\* event ends as a system error with the contact-operator reply, nothing is
\* pushed and no exception leaves the handler.
IsBypassVerdict(f) == f.is_valid /\ f.slip_data.kind \in {"none", "empty"}
YieldsNoAmount(f)  == ~gemini_client \/ f.gem.kind # "dict" \/ f.gem.amount = PyNone

C11_BypassNeedsFallback ==
    \A p \in Procs :
        IsBypassVerdict(frame[p]) =>
            /\ frame[p].pc = "i_gemini" => ~frame[p].resolved /\ frame[p].geminiCalls = 0
            /\ frame[p].resolved => frame[p].geminiCalls = 1
            /\ (frame[p].pc # "i_gemini" /\ YieldsNoAmount(frame[p])) =>
                  /\ frame[p].pc = "done" /\ frame[p].geminiCalls = 1
                  /\ frame[p].reply = AI_FAIL
                  /\ Outcome(frame[p]) = "RejectedSystemError"
                  /\ ~frame[p].resolved
                  /\ frame[p].pushed = "none" /\ QueueEmpty
                  /\ ~frame[p].raised

C11_Witness ==
    \E p \in Procs : /\ ~gemini_client /\ IsBypass(frame[p].slip)
                     /\ frame[p].geminiCalls = 1 /\ frame[p].reply = AI_FAIL

\* C12: after an answer of the vision model that is not JSON, or whose amount
\* is missing, null or not a number, no command is pushed for that event.
LacksNumericAmount(g) ==
    \/ g.kind = "badjson"
    \/ g.kind = "dict" /\ g.amount.ty \notin {"int", "float"}

C12_NoDispatchWithoutNumericAmount ==
    \A p \in Procs :
        LacksNumericAmount(frame[p].gem) =>
            frame[p].pushed = "none" /\ QueueEmpty

\* C13: a pushed command has method "slip", with the verifier's amount and
\* transRef, exactly when the verifier answered success with data, and method
\* "ai_fallback" only when the verifier answered a bypass code and the
\* fallback extractor gave the amount; the command is in the queue of the
\* channel path its amount resolves to.
IsSuccessWithData(r) ==
    r.kind = "json" /\ r.status = 200 /\ r.success /\ r.data.kind = "dict"

C13_MethodRecordsSource ==
    \A p \in Procs :
        LET f == frame[p] IN
        /\ (IsSuccessWithData(f.slip) /\ f.pc # "idle") => f.method = "slip"
        /\ f.pushed = "ok" =>
              /\ \/ /\ f.method = "slip" /\ IsSuccessWithData(f.slip)
                    /\ f.amount = f.slip.data.amount
                    /\ f.trans_ref = f.slip.data.transRef
                 \/ /\ f.method = "ai_fallback" /\ IsBypass(f.slip)
                    /\ f.gem.kind = "dict" /\ f.amount = f.gem.amount
              /\ get_target_path_from_amount(f.amount) \in Paths
              /\ InQueue(SlipCommand(f), get_target_path_from_amount(f.amount))

\* C14: an event has the Dispatched outcome only if its push returned true,
\* and its command is then in the queue; an event whose push returned false
\* has ended with the system-error reply of its path and never carries a
\* success reply.
C14_FailedPushIsNotSuccess ==
    \A p \in Procs :
        LET f == frame[p] IN
        /\ Outcome(f) = "Dispatched" =>
              /\ f.pushed = "ok"
              /\ InQueue(IF f.kind = "text" THEN CouponCommand(f)
                                            ELSE SlipCommand(f), f.target_path)
        /\ f.reply \in {COUPON_OK, SLIP_OK, SLIP_OK_AI} => f.pushed = "ok"
        /\ f.pushed = "fail" =>
              /\ f.pc = "done"
              /\ Outcome(f) = "RejectedSystemError"
              /\ f.reply = (IF f.kind = "text" THEN COUPON_PUSH_FAIL
                                               ELSE SLIP_PUSH_FAIL)

C14_Witness ==
    /\ \E p \in Procs : frame[p].kind = "image" /\ frame[p].pushed = "fail"
                        /\ frame[p].reply = SLIP_PUSH_FAIL
    /\ \E p \in Procs : frame[p].kind = "text" /\ frame[p].pushed = "fail"
                        /\ frame[p].reply = COUPON_PUSH_FAIL

\* C15: in every step each channel path keeps all the entries it had, in place
\* and unchanged; at most one entry is added, at the end of one path; and a
\* step in which a push fails changes neither the queue nor the coupon store.
IsPrefix(s, t) == Len(s) <= Len(t) /\ SubSeq(t, 1, Len(s)) = s
Grown == {q \in Paths : queue'[q] # queue[q]}
PushFails(p) == frame[p].pushed = "none" /\ frame'[p].pushed = "fail"

C15_QueueIsAppendOnly ==
    [][ /\ \A q \in Paths : IsPrefix(queue[q], queue'[q])
        /\ Cardinality(Grown) <= 1
        /\ \A q \in Grown : Len(queue'[q]) = Len(queue[q]) + 1
        /\ \A p \in Procs : PushFails(p) => UNCHANGED <<queue, coupons>>
      ]_vars

C15_Witness ==
    \E q \in Paths : Len(queue[q]) >= 2 /\ queue[q][1] # queue[q][2]

\* C16: when the read succeeds, check_and_redeem_coupon raises nothing and
\* reports the code valid exactly when the store holds a record for it: an
\* absent record gives (False, 0), a present one gives True with the stored
\* number, or with 0 when the record has no value of its own.
SameNumber(a, b) == a.neg = b.neg /\ a.ip = b.ip /\ a.fr = b.fr
IsPresent(snapshot) == snapshot # Absent

C16_ValidIffPresent ==
    LET f == frame[1] IN
    (f.kind = "text" /\ f.code \in Codes /\ ~f.readError /\ ~f.deleted) =>
        LET snapshot == coupons[f.code]
            r        == check_and_redeem_coupon(snapshot, FALSE)
        IN  /\ ~f.raised /\ ~r.raised
            /\ f.exists <=> IsPresent(snapshot)
            /\ r.exists <=> IsPresent(snapshot)
            /\ ~IsPresent(snapshot) => SameNumber(r.value, PyInt(0))
            /\ (IsPresent(snapshot) /\ snapshot.val.ty \in {"int", "float"}) =>
                   SameNumber(r.value, snapshot.val)
            /\ snapshot = DictNoValue => SameNumber(r.value, PyInt(0))

\* C17: for a text <5-digit code>-<N> whose coupon record is present and read,
\* the event goes on to push a command with method "coupon", that code and
\* machine N to machine N's configured path, whatever value the record holds.
HasCouponPath(n) == n \in DOMAIN MACHINE_PATH_MAP_COUPON

C17_PresentCouponGoesToMachinePath ==
    LET f == frame[1] IN
    (/\ f.kind = "text" /\ f.code \in Codes /\ HasCouponPath(f.machine_num)
     /\ ~f.readError /\ ~f.deleted /\ IsPresent(coupons[f.code])) =>
        /\ f.exists /\ ~f.raised
        /\ f.target_path = MACHINE_PATH_MAP_COUPON[f.machine_num]
        /\ f.reply # COUPON_INVALID
        /\ f.pushed = "ok" =>
              /\ CouponCommand(f).method = "coupon"
              /\ CouponCommand(f).code = f.code
              /\ CouponCommand(f).selected_machine = f.machine_num
              /\ InQueue(CouponCommand(f), MACHINE_PATH_MAP_COUPON[f.machine_num])

\* C18: an image event, or a text event in the coupon format, that has ended
\* carries exactly one of the five decision outcomes, and the queue holds
\* exactly one entry per event whose push succeeded, so no event pushes twice.
DecisionOutcomes ==
    {"Dispatched", "RejectedInvalidSlip", "RejectedAmountMismatch",
     "RejectedInvalidCoupon", "RejectedSystemError"}
IsDecisionEvent(f) == f.kind = "image" \/ (f.kind = "text" /\ f.code # "")
QueueEntries == UNION {{<<q, i>> : i \in DOMAIN queue[q]} : q \in Paths}

C18_OneOutcomeAtMostOnePush ==
    /\ \A p \in Procs :
           (frame[p].pc = "done" /\ IsDecisionEvent(frame[p])) =>
               Outcome(frame[p]) \in DecisionOutcomes
    /\ Cardinality(QueueEntries) = Cardinality({p \in Procs : frame[p].pushed = "ok"})

\* C19: for a coupon text whose machine number has no entry in the coupon
\* channel table and whose coupon is valid, the command goes to the default
\* path, and once the push has succeeded and the event has ended the coupon
\* record is gone from the store.
C19_UnmappedMachineUsesDefaultPath ==
    LET f == frame[1] IN
    (f.kind = "text" /\ f.code \in Codes /\ f.exists
        /\ ~HasCouponPath(f.machine_num)) =>
        /\ f.target_path = DEFAULT_PATH
        /\ f.pushed = "ok" => InQueue(CouponCommand(f), DEFAULT_PATH)
        /\ f.pushed = "fail" => f.reply = COUPON_PUSH_FAIL
        /\ (f.pushed = "ok" /\ f.pc = "done") => coupons[f.code] = Absent

\* C20: a step changes the coupon store only when it is the delete of a coupon
\* text event whose push succeeded, and then the only change is that the
\* record of that event's own code is removed; every other step (image events,
\* texts outside the coupon format, failed validations, failed pushes) leaves
\* all coupon records as they were.
IsOwnDelete(p) ==
    /\ frame[p].kind = "text" /\ frame[p].pc = "t_delete"
    /\ frame[p].exists /\ frame[p].pushed = "ok"
    /\ frame'[p].pc = "done" /\ frame'[p].deleted
    /\ coupons' = [coupons EXCEPT ![frame[p].code] = Absent]

C20_StoreChangedOnlyByOwnDelete ==
    [][ coupons' # coupons => \E p \in Procs : IsOwnDelete(p) ]_vars

C20_Witness ==
    \E p \in Procs, c \in Codes :
        /\ frame[p].deleted /\ frame[p].code # c
        /\ coupons[frame[p].code] = Absent
        /\ IsPresent(coupons[c])
        /\ \E q \in Procs : frame[q].kind = "image" /\ frame[q].pc = "done"

====
